---- MODULE Spec2Model ----
(***************************************************************************)
(* HandLandmarkerGraph (hand_landmarker_graph.cc): the track-or-detect    *)
(* loop.  Every node that BuildHandLandmarkerGraph adds to the graph is    *)
(* one action; every stream it connects is one variable holding the       *)
(* stream's packet at the current timestamp.                               *)
(***************************************************************************)
EXTENDS Integers, Sequences, FiniteSets

(* ---------------- bounds of the model ---------------- *)
MaxPos == 2          \* regions are rects centred at 0..MaxPos
MaxHands == 2        \* num_hands ranges over 1..MaxHands
MaxDet == 2          \* the detector returns at most MaxDet rects
MaxCycles == 3       \* frames fed to the graph in one run
MaxPrev == 3         \* stage check: length of the previous list
MaxFresh == 3        \* stage check: length of the fresh list

(* ---------------- model of a Region and of similarity ---------------- *)
RectWidth == 3
Thresholds == {0, 50, 100}      \* min_tracking_confidence, in percent

Regions == 0..MaxPos

Abs(n) == IF n < 0 THEN -n ELSE n

Min(a, b) == IF a <= b THEN a ELSE b

\* Normalized overlap (intersection over union) of two rects, in percent.
Similarity(r, s) ==
  LET d == Abs(r - s)
  IN IF d >= RectWidth THEN 0
     ELSE ((RectWidth - d) * 100) \div (RectWidth + d)

SeqsUpTo(S, n) == UNION {[1..k -> S] : k \in 0..n}

(* ---------------- packets on a stream ---------------- *)
\* A stream at the current timestamp is pending (not settled yet), settled
\* without a packet, or settled with a packet.
Pending(dflt) == [st |-> "pending", v |-> dflt]
NoPacket(dflt) == [st |-> "none", v |-> dflt]
Pkt(val) == [st |-> "pkt", v |-> val]

IsPending(s) == s.st = "pending"
IsSettled(s) == s.st # "pending"
HasPkt(s) == s.st = "pkt"

VARIABLES
  max_num_hands,                   \* hand_detector_graph_options().num_hands()
  min_tracking_confidence,         \* tasks_options.min_tracking_confidence()
  timestamp,                       \* timestamp of the frame in flight (0: none yet)
  phase,                           \* "idle" between cycles, "run" inside a cycle
  register,                        \* PreviousLoopbackCalculator's slot
  loop_written,                    \* the back edge delivered this cycle's packet
  image_in,
  prev_hand_rects_from_landmarks,
  has_enough_hands,
  image_for_hand_detector,
  hand_rects_from_hand_detector,
  palm_rects,
  palm_detections,
  hand_rects,
  clipped_hand_rects,
  landmark_lists,
  hand_rects_for_next_frame,
  image_out,
  output,                          \* the result of the frame in flight, once emitted
  detect_calls,                    \* detector invocations in this cycle
  detect_frame,                    \* frame the detector was invoked on
  register_at_start,               \* register when the frame was accepted
  prev_cycle_write,                \* HAND_RECT_NEXT_FRAME of the cycle before
  assoc_match,                     \* fresh index consumed by each previous rect
  assoc_inputs,                    \* <<previous, fresh>> the association consumed
  graph_status,                    \* "uninitialized", "ok" or "ConfigError"
  extract_outcome,                 \* per clipped rect: predicted rect or Omitted
  prev_cycle_counts,               \* <<n, k>> of the cycle before: n clipped
                                   \* regions, k of them omitted by the extractor
  reg_log,                         \* register accesses so far: "r" and "w"
  stable                           \* register was full at a cycle start and the
                                   \* extractor has omitted nothing since

config == <<max_num_hands, min_tracking_confidence>>
streams == <<image_in, prev_hand_rects_from_landmarks, has_enough_hands,
             image_for_hand_detector, hand_rects_from_hand_detector,
             palm_rects, palm_detections, hand_rects, clipped_hand_rects,
             landmark_lists, hand_rects_for_next_frame, image_out>>
history == <<graph_status, extract_outcome, prev_cycle_counts, reg_log,
             stable>>
vars == <<config, timestamp, phase, register, loop_written, streams, output,
          detect_calls, detect_frame, register_at_start, prev_cycle_write,
          assoc_match, assoc_inputs, history>>

NoOutput == [entities |-> <<>>, next_rects |-> <<>>, palm_rects |-> <<>>,
             palm_detections |-> <<>>, image |-> 0, ts |-> 0]

\* Option values a caller may configure, valid or not.
ConfiguredHands == -1..MaxHands

ConfiguredThresholds == Thresholds \cup {-50, 150}

Init ==
  /\ max_num_hands \in ConfiguredHands
  /\ min_tracking_confidence \in ConfiguredThresholds
  /\ timestamp = 0
  /\ phase = "idle"
  /\ register = <<>>
  /\ loop_written = FALSE
  /\ image_in = Pending(0)
  /\ prev_hand_rects_from_landmarks = Pending(<<>>)
  /\ has_enough_hands = Pending(FALSE)
  /\ image_for_hand_detector = Pending(0)
  /\ hand_rects_from_hand_detector = Pending(<<>>)
  /\ palm_rects = Pending(<<>>)
  /\ palm_detections = Pending(<<>>)
  /\ hand_rects = Pending(<<>>)
  /\ clipped_hand_rects = Pending(<<>>)
  /\ landmark_lists = Pending(<<>>)
  /\ hand_rects_for_next_frame = Pending(<<>>)
  /\ image_out = Pending(0)
  /\ output = NoOutput
  /\ detect_calls = 0
  /\ detect_frame = 0
  /\ register_at_start = <<>>
  /\ prev_cycle_write = <<>>
  /\ assoc_match = <<>>
  /\ assoc_inputs = <<>>
  /\ graph_status = "uninitialized"
  /\ extract_outcome = <<>>
  /\ prev_cycle_counts = <<0, 0>>
  /\ reg_log = <<>>
  /\ stable = FALSE

\* Configuration validation at construction: the clipper's max_vec_size must
\* be a positive integer and the association threshold must lie in [0,1].
OptionsValid(max_vec_size, min_similarity_threshold) ==
  /\ max_vec_size >= 1
  /\ min_similarity_threshold >= 0
  /\ min_similarity_threshold <= 100

\* The extractor's mark for a region it returns no entry for.
Omitted == -1

\* The detector was invoked in this cycle and produced no result.
DetectFailed ==
  detect_calls >= 1 /\ hand_rects_from_hand_detector.st = "none"

\* A frame enters on IMAGE: every stream of the new timestamp is pending.
AddFrame ==
  /\ graph_status = "ok"
  /\ phase = "idle"
  /\ timestamp < MaxCycles
  /\ timestamp' = timestamp + 1
  /\ phase' = "run"
  /\ image_in' = Pkt(timestamp + 1)
  /\ loop_written' = FALSE
  /\ prev_hand_rects_from_landmarks' = Pending(<<>>)
  /\ has_enough_hands' = Pending(FALSE)
  /\ image_for_hand_detector' = Pending(0)
  /\ hand_rects_from_hand_detector' = Pending(<<>>)
  /\ palm_rects' = Pending(<<>>)
  /\ palm_detections' = Pending(<<>>)
  /\ hand_rects' = Pending(<<>>)
  /\ clipped_hand_rects' = Pending(<<>>)
  /\ landmark_lists' = Pending(<<>>)
  /\ hand_rects_for_next_frame' = Pending(<<>>)
  /\ image_out' = Pending(0)
  /\ detect_calls' = 0
  /\ detect_frame' = 0
  /\ register_at_start' = register
  /\ prev_cycle_write' =
       IF HasPkt(hand_rects_for_next_frame) THEN hand_rects_for_next_frame.v
       ELSE <<>>
  /\ assoc_match' = <<>>
  /\ assoc_inputs' = <<>>
  /\ output' = NoOutput
  /\ extract_outcome' = <<>>
  /\ prev_cycle_counts' =
       <<Len(extract_outcome),
         Cardinality({i \in 1..Len(extract_outcome) :
                        extract_outcome[i] = Omitted})>>
  /\ stable' = (stable \/ Len(register) >= max_num_hands)
  /\ UNCHANGED <<config, register, graph_status, reg_log>>

\* PreviousLoopbackCalculator: MAIN is the frame, PREV_LOOP the rects the
\* back edge delivered for the frame before (the empty list before any).
PreviousLoopback ==
  /\ phase = "run"
  /\ HasPkt(image_in)
  /\ IsPending(prev_hand_rects_from_landmarks)
  /\ prev_hand_rects_from_landmarks' = Pkt(register)
  /\ reg_log' = Append(reg_log, "r")
  /\ UNCHANGED <<config, timestamp, phase, register, loop_written, image_in,
                 has_enough_hands, image_for_hand_detector,
                 hand_rects_from_hand_detector, palm_rects, palm_detections,
                 hand_rects, clipped_hand_rects, landmark_lists,
                 hand_rects_for_next_frame, image_out, output, detect_calls,
                 detect_frame, register_at_start, prev_cycle_write,
                 assoc_match, assoc_inputs, graph_status, extract_outcome,
                 prev_cycle_counts, stable>>

\* NormalizedRectVectorHasMinSizeCalculator: has the vector min_size items?
CollectionHasMinSize(iterable, min_size) == Len(iterable) >= min_size

\* Wiring slip: the minimum size is one more than the quota.
MinSize_OffByOne == max_num_hands + 1

\* set_min_size(max_num_hands)
MinSize == max_num_hands

MinSizeNode ==
  /\ HasPkt(prev_hand_rects_from_landmarks)
  /\ IsPending(has_enough_hands)
  /\ has_enough_hands' =
       Pkt(CollectionHasMinSize(prev_hand_rects_from_landmarks.v, MinSize))
  /\ UNCHANGED <<config, timestamp, phase, register, loop_written, image_in,
                 prev_hand_rects_from_landmarks, image_for_hand_detector,
                 hand_rects_from_hand_detector, palm_rects, palm_detections,
                 hand_rects, clipped_hand_rects, landmark_lists,
                 hand_rects_for_next_frame, image_out, output, detect_calls,
                 detect_frame, register_at_start, prev_cycle_write,
                 assoc_match, assoc_inputs, history>>

\* DisallowIf(stream, condition, graph): the packet passes only when the
\* condition is false; otherwise the stream settles without a packet.
DisallowIf(stream, condition) ==
  IF condition.v THEN NoPacket(0) ELSE stream

\* Wiring slip: the detector is fed the frame directly, without the gate.
ImageForHandDetector_Ungated == image_in

\* Wiring slip: the gate allows where it should disallow.
ImageForHandDetector_AllowIf ==
  IF has_enough_hands.v THEN image_in ELSE NoPacket(0)

\* auto image_for_hand_detector = DisallowIf(image_in, has_enough_hands, graph)
ImageForHandDetector == DisallowIf(image_in, has_enough_hands)

GateImage ==
  /\ HasPkt(image_in)
  /\ HasPkt(has_enough_hands)
  /\ IsPending(image_for_hand_detector)
  /\ image_for_hand_detector' = ImageForHandDetector
  /\ UNCHANGED <<config, timestamp, phase, register, loop_written, image_in,
                 prev_hand_rects_from_landmarks, has_enough_hands,
                 hand_rects_from_hand_detector, palm_rects, palm_detections,
                 hand_rects, clipped_hand_rects, landmark_lists,
                 hand_rects_for_next_frame, image_out, output, detect_calls,
                 detect_frame, register_at_start, prev_cycle_write,
                 assoc_match, assoc_inputs, history>>

\* Detect(frame) -> list<Region>: any list of at most MaxDet rects.
DetectorOutputs == SeqsUpTo(Regions, MaxDet)

\* HandDetectorGraph runs on the frame it is given.
HandDetectorRun ==
  /\ HasPkt(image_for_hand_detector)
  /\ IsPending(hand_rects_from_hand_detector)
  /\ \E d \in DetectorOutputs :
       /\ hand_rects_from_hand_detector' = Pkt(d)
       /\ palm_rects' = Pkt(d)
       /\ palm_detections' = Pkt(d)
  /\ detect_calls' = detect_calls + 1
  /\ detect_frame' = image_for_hand_detector.v
  /\ UNCHANGED <<config, timestamp, phase, register, loop_written, image_in,
                 prev_hand_rects_from_landmarks, has_enough_hands,
                 image_for_hand_detector, hand_rects, clipped_hand_rects,
                 landmark_lists, hand_rects_for_next_frame, image_out, output,
                 register_at_start, prev_cycle_write, assoc_match,
                 assoc_inputs, history>>

\* HandDetectorGraph runs on the frame and fails: zero detections this cycle,
\* its outputs settle without packets.
HandDetectorFail ==
  /\ HasPkt(image_for_hand_detector)
  /\ IsPending(hand_rects_from_hand_detector)
  /\ hand_rects_from_hand_detector' = NoPacket(<<>>)
  /\ palm_rects' = NoPacket(<<>>)
  /\ palm_detections' = NoPacket(<<>>)
  /\ detect_calls' = detect_calls + 1
  /\ detect_frame' = image_for_hand_detector.v
  /\ UNCHANGED <<config, timestamp, phase, register, loop_written, image_in,
                 prev_hand_rects_from_landmarks, has_enough_hands,
                 image_for_hand_detector, hand_rects, clipped_hand_rects,
                 landmark_lists, hand_rects_for_next_frame, image_out, output,
                 register_at_start, prev_cycle_write, assoc_match,
                 assoc_inputs, history>>

\* HandDetectorGraph receives no frame: it is not run and its outputs settle
\* without packets.
HandDetectorSkip ==
  /\ image_for_hand_detector.st = "none"
  /\ IsPending(hand_rects_from_hand_detector)
  /\ hand_rects_from_hand_detector' = NoPacket(<<>>)
  /\ palm_rects' = NoPacket(<<>>)
  /\ palm_detections' = NoPacket(<<>>)
  /\ UNCHANGED <<config, timestamp, phase, register, loop_written, image_in,
                 prev_hand_rects_from_landmarks, has_enough_hands,
                 image_for_hand_detector, hand_rects, clipped_hand_rects,
                 landmark_lists, hand_rects_for_next_frame, image_out, output,
                 detect_calls, detect_frame, register_at_start,
                 prev_cycle_write, assoc_match, assoc_inputs, history>>

(* ---------------- HandAssociationCalculator ---------------- *)
\* Scan fresh from index j for the first unconsumed element whose similarity
\* to the previous rect p reaches the threshold; 0 when there is none.
RECURSIVE FirstMatch(_, _, _, _, _)
FirstMatch(p, fresh, thr, consumed, j) ==
  IF j > Len(fresh) THEN 0
  ELSE IF j \notin consumed /\ Similarity(p, fresh[j]) >= thr THEN j
  ELSE FirstMatch(p, fresh, thr, consumed, j + 1)

\* Process previous[1], previous[2], ... in order; match[i] is the fresh
\* index previous[i] consumed, or 0.
RECURSIVE ScanPrevious(_, _, _, _)
ScanPrevious(previous, fresh, thr, match) ==
  IF Len(match) >= Len(previous) THEN match
  ELSE LET consumed == {match[k] : k \in 1..Len(match)} \ {0}
           pick == FirstMatch(previous[Len(match) + 1], fresh, thr,
                              consumed, 1)
       IN ScanPrevious(previous, fresh, thr, Append(match, pick))

\* The fresh elements from index j on that no previous rect consumed.
RECURSIVE Unconsumed(_, _, _)
Unconsumed(fresh, consumed, j) ==
  IF j > Len(fresh) THEN <<>>
  ELSE IF j \in consumed THEN Unconsumed(fresh, consumed, j + 1)
  ELSE <<fresh[j]>> \o Unconsumed(fresh, consumed, j + 1)

MatchOf(previous, fresh, thr) == ScanPrevious(previous, fresh, thr, <<>>)

Associate(previous, fresh, thr) ==
  LET match == MatchOf(previous, fresh, thr)
      consumed == {match[k] : k \in 1..Len(match)} \ {0}
  IN previous \o Unconsumed(fresh, consumed, 1)

\* Wiring slips: both inputs of the association taken from one stream.
AssociationInput0_Detector == hand_rects_from_hand_detector

AssociationInput1_Loopback == prev_hand_rects_from_landmarks

\* Input [0] of the association is the loopback output, input [1] the
\* detector's rects; a stream without a packet contributes no rects.
AssociationInput0 == prev_hand_rects_from_landmarks

AssociationInput1 == hand_rects_from_hand_detector

\* Wiring slip: the threshold is set from the complement of the confidence.
MinSimilarityThreshold_Complement == 100 - min_tracking_confidence

\* set_min_similarity_threshold(tasks_options.min_tracking_confidence())
MinSimilarityThreshold == min_tracking_confidence

HandAssociation ==
  /\ IsSettled(AssociationInput0)
  /\ IsSettled(AssociationInput1)
  /\ IsSettled(prev_hand_rects_from_landmarks)
  /\ IsSettled(hand_rects_from_hand_detector)
  /\ IsPending(hand_rects)
  /\ hand_rects' = Pkt(Associate(AssociationInput0.v, AssociationInput1.v,
                                 MinSimilarityThreshold))
  /\ assoc_match' = MatchOf(AssociationInput0.v, AssociationInput1.v,
                            MinSimilarityThreshold)
  /\ assoc_inputs' = <<AssociationInput0.v, AssociationInput1.v>>
  /\ UNCHANGED <<config, timestamp, phase, register, loop_written, image_in,
                 prev_hand_rects_from_landmarks, has_enough_hands,
                 image_for_hand_detector, hand_rects_from_hand_detector,
                 palm_rects, palm_detections, clipped_hand_rects,
                 landmark_lists, hand_rects_for_next_frame, image_out, output,
                 detect_calls, detect_frame, register_at_start,
                 prev_cycle_write, history>>

(* ---------------- ClipNormalizedRectVectorSizeCalculator ---------------- *)
ClipVectorSize(vec, max_vec_size) ==
  SubSeq(vec, 1, Min(Len(vec), max_vec_size))

\* Wiring slip: the clip size is one more than the quota.
MaxVecSize_OffByOne == max_num_hands + 1

\* set_max_vec_size(max_num_hands)
MaxVecSize == max_num_hands

\* Wiring slip: the clipper is fed the detector's rects.
ClipInput_Detector == hand_rects_from_hand_detector

\* hand_rects >> clip_hand_rects.In("")
ClipInput == hand_rects

ClipHandRects ==
  /\ HasPkt(ClipInput)
  /\ HasPkt(hand_rects)
  /\ IsPending(clipped_hand_rects)
  /\ clipped_hand_rects' = Pkt(ClipVectorSize(ClipInput.v, MaxVecSize))
  /\ UNCHANGED <<config, timestamp, phase, register, loop_written, image_in,
                 prev_hand_rects_from_landmarks, has_enough_hands,
                 image_for_hand_detector, hand_rects_from_hand_detector,
                 palm_rects, palm_detections, hand_rects, landmark_lists,
                 hand_rects_for_next_frame, image_out, output, detect_calls,
                 detect_frame, register_at_start, prev_cycle_write,
                 assoc_match, assoc_inputs, history>>

(* ---------------- HandLandmarkerSubgraph ---------------- *)
\* Extract(frame, regions): per region, no entry or a predicted region.
ExtractorOutcomes(n) == [1..n -> Regions \cup {Omitted}]

\* The indices of regions the extractor returned an entry for, in order.
RECURSIVE KeptFrom(_, _)
KeptFrom(f, i) ==
  IF i > Len(f) THEN <<>>
  ELSE IF f[i] = Omitted THEN KeptFrom(f, i + 1)
  ELSE <<i>> \o KeptFrom(f, i + 1)

Kept(f) == KeptFrom(f, 1)

\* Wiring slip: the subgraph is fed the unclipped association output.
SubgraphHandRect_Unclipped == hand_rects

\* clipped_hand_rects >> hand_landmarker_subgraph.In("HAND_RECT")
SubgraphHandRect == clipped_hand_rects

HandLandmarkerSubgraph ==
  /\ HasPkt(image_in)
  /\ HasPkt(SubgraphHandRect)
  /\ HasPkt(clipped_hand_rects)
  /\ IsPending(hand_rects_for_next_frame)
  /\ \E f \in ExtractorOutcomes(Len(SubgraphHandRect.v)) :
       LET kept == Kept(f)
       IN /\ landmark_lists' =
               Pkt([k \in 1..Len(kept) |-> SubgraphHandRect.v[kept[k]]])
          /\ hand_rects_for_next_frame' =
               Pkt([k \in 1..Len(kept) |-> f[kept[k]]])
          /\ extract_outcome' = f
          /\ stable' = (stable /\ Len(kept) = Len(f))
  /\ UNCHANGED <<config, timestamp, phase, register, loop_written, image_in,
                 prev_hand_rects_from_landmarks, has_enough_hands,
                 image_for_hand_detector, hand_rects_from_hand_detector,
                 palm_rects, palm_detections, hand_rects, clipped_hand_rects,
                 image_out, output, detect_calls, detect_frame,
                 register_at_start, prev_cycle_write, assoc_match,
                 assoc_inputs, graph_status, prev_cycle_counts, reg_log>>

(* ---------------- back edge, pass-through, graph outputs ---------------- *)
\* Wiring slip: the back edge carries the clipped rects of this frame.
LoopInput_Clipped == clipped_hand_rects

\* hand_rects_for_next_frame >> previous_loopback.In("LOOP")
LoopInput == hand_rects_for_next_frame

BackEdge ==
  /\ phase = "run"
  /\ HasPkt(LoopInput)
  /\ HasPkt(hand_rects_for_next_frame)
  /\ ~loop_written
  /\ register' = LoopInput.v
  /\ loop_written' = TRUE
  /\ reg_log' = Append(reg_log, "w")
  /\ UNCHANGED <<config, timestamp, phase, streams, output, detect_calls,
                 detect_frame, register_at_start, prev_cycle_write,
                 assoc_match, assoc_inputs, graph_status, extract_outcome,
                 prev_cycle_counts, stable>>

\* Wiring slip: the pass-through is fed the gated frame.
PassThroughInput_Gated == image_for_hand_detector

\* image_in >> pass_through.In("")
PassThroughInput == image_in

\* PassThroughCalculator forwards what its input carries.
PassThrough ==
  /\ HasPkt(image_in)
  /\ IsSettled(PassThroughInput)
  /\ IsPending(image_out)
  /\ image_out' = PassThroughInput
  /\ UNCHANGED <<config, timestamp, phase, register, loop_written, image_in,
                 prev_hand_rects_from_landmarks, has_enough_hands,
                 image_for_hand_detector, hand_rects_from_hand_detector,
                 palm_rects, palm_detections, hand_rects, clipped_hand_rects,
                 landmark_lists, hand_rects_for_next_frame, output,
                 detect_calls, detect_frame, register_at_start,
                 prev_cycle_write, assoc_match, assoc_inputs, history>>

\* Scheduling slip: the result is handed over without waiting for the back
\* edge.
FeedbackLanded_NotAwaited == TRUE

\* A cycle ends, and the next frame is accepted, only once the feedback
\* write of this cycle has landed.
FeedbackLanded == loop_written

\* Wiring slip: the palm rects output is taken from the loopback stream.
PalmRectsOutput_Loopback == prev_hand_rects_from_landmarks

\* /* palm_rects= */ hand_detector[Output(kPalmRectsTag)]
PalmRectsOutput == palm_rects

\* /* palm_detections */ hand_detector[Output(kPalmDetectionsTag)]
PalmDetectionsOutput == palm_detections

\* The graph's output streams of this timestamp are all settled and the back
\* edge has delivered: the cycle's result goes to the caller.
EmitOutputs ==
  /\ phase = "run"
  /\ FeedbackLanded
  /\ IsSettled(landmark_lists)
  /\ IsSettled(hand_rects_for_next_frame)
  /\ IsSettled(palm_rects)
  /\ IsSettled(palm_detections)
  /\ IsSettled(PalmRectsOutput)
  /\ IsSettled(PalmDetectionsOutput)
  /\ HasPkt(image_out)
  /\ output' = [entities |-> landmark_lists.v,
                next_rects |-> hand_rects_for_next_frame.v,
                palm_rects |-> PalmRectsOutput.v,
                palm_detections |-> PalmDetectionsOutput.v,
                image |-> image_out.v,
                ts |-> timestamp]
  /\ phase' = "idle"
  /\ UNCHANGED <<config, timestamp, register, loop_written, streams,
                 detect_calls, detect_frame, register_at_start,
                 prev_cycle_write, assoc_match, assoc_inputs, history>>

\* GetConfig builds the graph with the options set on its nodes; the graph
\* starts only when the options are valid.
GetConfig ==
  /\ graph_status = "uninitialized"
  /\ graph_status' =
       IF OptionsValid(MaxVecSize, MinSimilarityThreshold) THEN "ok"
       ELSE "ConfigError"
  /\ UNCHANGED <<config, timestamp, phase, register, loop_written, streams,
                 output, detect_calls, detect_frame, register_at_start,
                 prev_cycle_write, assoc_match, assoc_inputs, extract_outcome,
                 prev_cycle_counts, reg_log, stable>>

Next ==
  \/ GetConfig
  \/ AddFrame
  \/ PreviousLoopback
  \/ MinSizeNode
  \/ GateImage
  \/ HandDetectorRun
  \/ HandDetectorFail
  \/ HandDetectorSkip
  \/ HandAssociation
  \/ ClipHandRects
  \/ HandLandmarkerSubgraph
  \/ BackEdge
  \/ PassThrough
  \/ EmitOutputs

Spec == Init /\ [][Next]_vars

\* A node whose inputs are settled is eventually run by the scheduler; the
\* caller is free to stop sending frames.
NodeStep ==
  \/ GetConfig
  \/ PreviousLoopback
  \/ MinSizeNode
  \/ GateImage
  \/ HandDetectorRun
  \/ HandDetectorFail
  \/ HandDetectorSkip
  \/ HandAssociation
  \/ ClipHandRects
  \/ HandLandmarkerSubgraph
  \/ BackEdge
  \/ PassThrough
  \/ EmitOutputs

FairSpec == Spec /\ WF_vars(NodeStep)

(* ---------------- the association and clip stages on their own ---------------- *)
\* The two calculators applied to every previous list of at most MaxPrev
\* rects and every detector stream (no packet, or at most MaxFresh rects).
StageInit ==
  /\ max_num_hands \in 1..MaxHands
  /\ min_tracking_confidence \in Thresholds
  /\ timestamp = 1
  /\ phase = "run"
  /\ register \in SeqsUpTo(Regions, MaxPrev)
  /\ loop_written = FALSE
  /\ image_in = Pkt(1)
  /\ prev_hand_rects_from_landmarks = Pkt(register)
  /\ has_enough_hands = Pending(FALSE)
  /\ image_for_hand_detector = Pending(0)
  /\ hand_rects_from_hand_detector \in
       {NoPacket(<<>>)} \cup {Pkt(d) : d \in SeqsUpTo(Regions, MaxFresh)}
  /\ palm_rects = hand_rects_from_hand_detector
  /\ palm_detections = hand_rects_from_hand_detector
  /\ hand_rects = Pending(<<>>)
  /\ clipped_hand_rects = Pending(<<>>)
  /\ landmark_lists = Pending(<<>>)
  /\ hand_rects_for_next_frame = Pending(<<>>)
  /\ image_out = Pending(0)
  /\ output = NoOutput
  /\ detect_calls = 0
  /\ detect_frame = 0
  /\ register_at_start = register
  /\ prev_cycle_write = register
  /\ assoc_match = <<>>
  /\ assoc_inputs = <<>>
  /\ graph_status = "ok"
  /\ extract_outcome = <<>>
  /\ prev_cycle_counts = <<0, 0>>
  /\ reg_log = <<"r">>
  /\ stable = FALSE

StageNext ==
  \/ HandAssociation
  \/ ClipHandRects

StageSpec == StageInit /\ [][StageNext]_vars

(* ---------------- properties ---------------- *)
\* C1: in every cycle of a constructed graph the entity list has at most
\* max_entities entries: the extractor receives the clipped association
\* output (at most max_entities regions) and returns at most one entity per
\* region.
C1_EntitiesWithinQuota ==
  graph_status = "ok" =>
  /\ HasPkt(landmark_lists) =>
       /\ HasPkt(clipped_hand_rects)
       /\ Len(clipped_hand_rects.v) <= max_num_hands
       /\ Len(landmark_lists.v) <= Len(clipped_hand_rects.v)
       /\ Len(landmark_lists.v) <= max_num_hands
  /\ Len(output.entities) <= max_num_hands

\* A cycle whose association output exceeded the quota has emitted a full
\* entity list.
C1_Witness ==
  /\ phase = "idle"
  /\ output.ts = timestamp
  /\ timestamp >= 1
  /\ Len(hand_rects.v) > max_num_hands
  /\ Len(output.entities) = max_num_hands

\* C2: in every reachable state of a constructed graph the list held by the
\* loopback register has at most max_entities regions.
C2_RegisterWithinQuota ==
  graph_status = "ok" => Len(register) <= max_num_hands

\* The back edge has written a full register in a cycle that had to clip.
C2_Witness ==
  /\ timestamp >= 2
  /\ loop_written
  /\ Len(hand_rects.v) > max_num_hands
  /\ Len(register) = max_num_hands

\* C3: in a cycle that starts with at least max_entities regions in the
\* register the detector is not invoked: its call count stays 0 and the
\* frame never reaches it.
C3_DetectorSkippedWhenSufficient ==
  (timestamp >= 1 /\ Len(register_at_start) >= max_num_hands) =>
     /\ detect_calls = 0
     /\ ~HasPkt(image_for_hand_detector)
     /\ ~HasPkt(hand_rects_from_hand_detector)

\* A complete cycle that started with a full register and skipped detection.
C3_Witness ==
  /\ timestamp >= 2
  /\ phase = "idle"
  /\ output.ts = timestamp
  /\ Len(register_at_start) >= max_num_hands
  /\ image_for_hand_detector.st = "none"
  /\ detect_calls = 0

\* C4: in a cycle that starts with fewer than max_entities regions in the
\* register the detector is invoked once, on this cycle's frame, and the
\* association consumes its result as the fresh list.
C4_DetectorRunsWhenInsufficient ==
  (Len(register_at_start) < max_num_hands /\ IsSettled(hand_rects)) =>
     /\ detect_calls = 1
     /\ detect_frame = timestamp
     /\ image_for_hand_detector = Pkt(timestamp)
     /\ HasPkt(hand_rects_from_hand_detector) \/ DetectFailed
     /\ assoc_inputs = <<register_at_start, hand_rects_from_hand_detector.v>>

\* A later cycle, after tracking was partly lost, detects again and forwards
\* a non-empty detection list.
C4_Witness ==
  /\ timestamp >= 2
  /\ IsSettled(hand_rects)
  /\ Len(register_at_start) < max_num_hands
  /\ Len(register_at_start) > 0
  /\ detect_calls = 1
  /\ Len(hand_rects_from_hand_detector.v) > 0

\* C5: one-cycle feedback lag: the register read of a cycle returns the
\* predicted rects of the cycle before (the empty list in the first cycle),
\* and keeps that value when this cycle's write lands.
C5_OneCycleLag ==
  HasPkt(prev_hand_rects_from_landmarks) =>
     /\ prev_hand_rects_from_landmarks.v = prev_cycle_write
     /\ timestamp = 1 => prev_hand_rects_from_landmarks.v = <<>>
     /\ (loop_written /\ HasPkt(hand_rects_for_next_frame)) =>
          register = hand_rects_for_next_frame.v

\* In a later cycle the write has landed with a value different from the
\* one this cycle read.
C5_Witness ==
  /\ timestamp >= 2
  /\ HasPkt(prev_hand_rects_from_landmarks)
  /\ prev_hand_rects_from_landmarks.v # <<>>
  /\ loop_written
  /\ register # prev_hand_rects_from_landmarks.v
  /\ prev_hand_rects_from_landmarks.v = prev_cycle_write

(* ---------------- properties of the association and the clip ---------------- *)
\* The lists the stage is given: previous from the loopback, fresh from the
\* detector (no rects when the detector stream carries no packet).
PreviousList == prev_hand_rects_from_landmarks.v

FreshList == hand_rects_from_hand_detector.v

\* Fresh indices consumed by some previous rect, and those left over.
ConsumedIdx == {assoc_match[i] : i \in 1..Len(assoc_match)} \ {0}

UnconsumedIdx == (1..Len(FreshList)) \ ConsumedIdx

\* Number of positions of seq that hold region r.
Count(seq, r) == Cardinality({i \in 1..Len(seq) : seq[i] = r})

\* C6: identity law: associating previous = P with an empty fresh list
\* yields exactly P, same elements in the same order.
C6_IdentityLaw ==
  (HasPkt(hand_rects) /\ FreshList = <<>>) => hand_rects.v = PreviousList

\* The law applied to a previous list whose two rects are similar to each
\* other at or above the threshold.
C6_Witness ==
  /\ HasPkt(hand_rects)
  /\ FreshList = <<>>
  /\ Len(PreviousList) = 2
  /\ Similarity(PreviousList[1], PreviousList[2]) >= min_tracking_confidence
  /\ hand_rects.v = PreviousList

\* C7: the association output is every previous rect in its original order
\* and form, followed by exactly the unconsumed fresh rects in their
\* original order; a fresh rect below the threshold to every previous rect
\* is always among those appended.
C7_PreviousThenUnconsumedFresh ==
  HasPkt(hand_rects) =>
    LET M == hand_rects.v
        P == PreviousList
        F == FreshList
    IN /\ Len(assoc_match) = Len(P)
       /\ Len(M) = Len(P) + Cardinality(UnconsumedIdx)
       /\ \A i \in 1..Len(P) : M[i] = P[i]
       /\ \A j \in UnconsumedIdx :
            M[Len(P) + Cardinality({u \in UnconsumedIdx : u <= j})] = F[j]
       /\ \A j \in 1..Len(F) :
            (\A i \in 1..Len(P) :
               Similarity(P[i], F[j]) < min_tracking_confidence)
            => j \in UnconsumedIdx

\* One fresh rect was matched and dropped (it differs from the previous rect
\* that absorbed it) and another one was appended.
C7_Witness ==
  /\ HasPkt(hand_rects)
  /\ Len(PreviousList) >= 1
  /\ \E i \in 1..Len(assoc_match) :
       /\ assoc_match[i] # 0
       /\ FreshList[assoc_match[i]] # PreviousList[i]
  /\ UnconsumedIdx # {}
  /\ Len(hand_rects.v) = Len(PreviousList) + 1

\* C8: greedy matching in scan order: each previous rect consumes the
\* lowest-index fresh rect that is not yet consumed and reaches the
\* threshold, or none; no fresh rect is consumed twice; of two fresh rects
\* similar to a single previous rect only the first is consumed.
C8_GreedyFirstMatch ==
  HasPkt(hand_rects) =>
    LET P == PreviousList
        F == FreshList
        earlier(i) == {assoc_match[k] : k \in 1..(i - 1)} \ {0}
        cand(i) == {j \in 1..Len(F) :
                      /\ j \notin earlier(i)
                      /\ Similarity(P[i], F[j]) >= min_tracking_confidence}
    IN /\ Len(assoc_match) = Len(P)
       /\ \A i \in 1..Len(P) :
            IF cand(i) = {} THEN assoc_match[i] = 0
            ELSE /\ assoc_match[i] \in cand(i)
                 /\ \A j \in cand(i) : assoc_match[i] <= j
       /\ \A i, k \in 1..Len(P) :
            (i # k /\ assoc_match[i] # 0) => assoc_match[i] # assoc_match[k]
       /\ (/\ Len(P) = 1
           /\ Len(F) >= 2
           /\ Similarity(P[1], F[1]) >= min_tracking_confidence
           /\ Similarity(P[1], F[2]) >= min_tracking_confidence)
          => /\ assoc_match = <<1>>
             /\ hand_rects.v = <<P[1]>> \o SubSeq(F, 2, Len(F))

\* The second previous rect found its first candidate already consumed and
\* took the next one.
C8_Witness ==
  /\ HasPkt(hand_rects)
  /\ Len(PreviousList) = 2
  /\ Len(FreshList) = 2
  /\ min_tracking_confidence > 0
  /\ Similarity(PreviousList[2], FreshList[1]) >= min_tracking_confidence
  /\ assoc_match = <<1, 2>>

\* C9: the output is no longer than both inputs together and accounts for
\* every input rect exactly once: it is output once, or it is a fresh rect
\* absorbed by exactly one previous rect.
C9_EveryRegionAccountedOnce ==
  HasPkt(hand_rects) =>
    LET M == hand_rects.v
        P == PreviousList
        F == FreshList
        absorbed(r) == Cardinality({j \in ConsumedIdx : F[j] = r})
    IN /\ Len(M) <= Len(P) + Len(F)
       /\ Len(M) = Len(P) + Len(F) - Cardinality(ConsumedIdx)
       /\ ConsumedIdx \subseteq 1..Len(F)
       /\ \A j \in ConsumedIdx :
            Cardinality({i \in 1..Len(assoc_match) : assoc_match[i] = j}) = 1
       /\ \A r \in Regions :
            Count(M, r) + absorbed(r) = Count(P, r) + Count(F, r)

\* Two inputs, one fresh rect absorbed, one appended, equal rects present.
C9_Witness ==
  /\ HasPkt(hand_rects)
  /\ Len(PreviousList) = 2
  /\ Len(FreshList) = 2
  /\ Cardinality(ConsumedIdx) = 1
  /\ Len(hand_rects.v) = 3

\* C10: the clipper returns exactly the first min(len(M), max_entities)
\* elements of the association output M, in order, so previous rects keep
\* their places ahead of fresh ones.
C10_StablePrefix ==
  HasPkt(clipped_hand_rects) =>
    LET M == hand_rects.v
        C == clipped_hand_rects.v
    IN /\ HasPkt(hand_rects)
       /\ Len(C) = Min(Len(M), max_num_hands)
       /\ \A i \in 1..Len(C) : C[i] = M[i]
       /\ \A i \in 1..Min(Len(PreviousList), max_num_hands) :
            C[i] = PreviousList[i]

\* The quota was exceeded and a fresh rect was cut off behind the previous
\* ones.
C10_Witness ==
  /\ HasPkt(clipped_hand_rects)
  /\ Len(hand_rects.v) > max_num_hands
  /\ Len(PreviousList) = max_num_hands
  /\ UnconsumedIdx # {}
  /\ clipped_hand_rects.v = PreviousList

(* ---------------- construction, failures, scheduling ---------------- *)
ConfigInvalid ==
  \/ max_num_hands <= 0
  \/ min_tracking_confidence < 0
  \/ min_tracking_confidence > 100

NoCycleActivity ==
  /\ timestamp = 0
  /\ phase = "idle"
  /\ register = <<>>
  /\ reg_log = <<>>
  /\ detect_calls = 0
  /\ extract_outcome = <<>>
  /\ IsPending(image_in)
  /\ IsPending(prev_hand_rects_from_landmarks)
  /\ IsPending(hand_rects_from_hand_detector)
  /\ IsPending(hand_rects_for_next_frame)
  /\ output = NoOutput

KeptIdx(f) == {i \in 1..Len(f) : f[i] # Omitted}

Rank(f, i) == Cardinality({u \in KeptIdx(f) : u <= i})

AllOmitted(f) == \A i \in 1..Len(f) : f[i] = Omitted

\* C12: partial extractor failure narrows the state without error: when the
\* extractor omits k of the n clipped regions, the output has n-k entities
\* and the register, as read in the next cycle, holds the n-k predicted
\* regions of the successful ones in clipped order.
C12_PartialFailureNarrows ==
  /\ HasPkt(hand_rects_for_next_frame) =>
       LET f == extract_outcome
           C == clipped_hand_rects.v
       IN /\ graph_status = "ok"
          /\ Len(f) = Len(C)
          /\ Len(landmark_lists.v) = Cardinality(KeptIdx(f))
          /\ Len(hand_rects_for_next_frame.v) = Cardinality(KeptIdx(f))
          /\ \A i \in KeptIdx(f) :
               /\ landmark_lists.v[Rank(f, i)] = C[i]
               /\ hand_rects_for_next_frame.v[Rank(f, i)] = f[i]
          /\ loop_written =>
               /\ Len(register) = Cardinality(KeptIdx(f))
               /\ \A i \in KeptIdx(f) : register[Rank(f, i)] = f[i]
          /\ (phase = "idle" /\ loop_written) =>
               Len(output.entities) = Cardinality(KeptIdx(f))
  /\ (timestamp >= 2 /\ HasPkt(prev_hand_rects_from_landmarks)) =>
       /\ Len(prev_hand_rects_from_landmarks.v) =
            prev_cycle_counts[1] - prev_cycle_counts[2]
       /\ prev_hand_rects_from_landmarks.v = prev_cycle_write

\* Scenario D: the extractor failed on one of 2 clipped regions; the next
\* cycle reads a register of length 1.
C12_Witness ==
  /\ timestamp >= 2
  /\ HasPkt(prev_hand_rects_from_landmarks)
  /\ prev_cycle_counts = <<2, 1>>
  /\ Len(prev_hand_rects_from_landmarks.v) = 1

\* C13: total extractor failure resets tracking: the cycle's entity list is
\* empty, the register is overwritten with the empty list, and in the next
\* cycle the gate reports insufficient and the detector is invoked.
C13_TotalFailureResets ==
  /\ (HasPkt(hand_rects_for_next_frame) /\ AllOmitted(extract_outcome)) =>
       /\ landmark_lists.v = <<>>
       /\ hand_rects_for_next_frame.v = <<>>
       /\ loop_written => register = <<>>
       /\ (phase = "idle" /\ loop_written) => output.entities = <<>>
  /\ (timestamp >= 2 /\ prev_cycle_counts[2] = prev_cycle_counts[1]) =>
       /\ register_at_start = <<>>
       /\ HasPkt(prev_hand_rects_from_landmarks) =>
            prev_hand_rects_from_landmarks.v = <<>>
       /\ HasPkt(has_enough_hands) => ~has_enough_hands.v
       /\ IsSettled(hand_rects_from_hand_detector) => detect_calls = 1

\* A cycle that started with a non-empty register lost every region and the
\* write of the empty list has landed.
C13_Witness ==
  /\ timestamp >= 2
  /\ register_at_start # <<>>
  /\ Len(extract_outcome) >= 1
  /\ AllOmitted(extract_outcome)
  /\ HasPkt(hand_rects_for_next_frame)
  /\ loop_written
  /\ register = <<>>

\* C14: a detector failure does not halt the stream: the association runs
\* with fresh = [] and yields the previous list, the cycle still produces
\* its output and feedback write, and a further frame can be processed.
C14_DetectorFailureDoesNotHalt ==
  DetectFailed =>
    /\ graph_status = "ok"
    /\ (HasPkt(prev_hand_rects_from_landmarks) /\ IsPending(hand_rects)) =>
         ENABLED HandAssociation
    /\ HasPkt(hand_rects) =>
         /\ assoc_inputs = <<prev_hand_rects_from_landmarks.v, <<>>>>
         /\ hand_rects.v = prev_hand_rects_from_landmarks.v
    /\ (HasPkt(hand_rects) /\ IsPending(clipped_hand_rects)) =>
         ENABLED ClipHandRects
    /\ phase = "idle" =>
         /\ output.ts = timestamp
         /\ loop_written
         /\ register = hand_rects_for_next_frame.v
         /\ timestamp < MaxCycles => ENABLED AddFrame

\* The detector failed while a region was tracked; the cycle has completed
\* and a further frame can be accepted.
C14_Witness ==
  /\ DetectFailed
  /\ register_at_start # <<>>
  /\ hand_rects.v = register_at_start
  /\ phase = "idle"
  /\ output.ts = timestamp
  /\ timestamp < MaxCycles
  /\ ENABLED AddFrame

DetectorSkipped == image_for_hand_detector.st = "none"

\* C15: when the gate skips the detector the downstream stages behave as for
\* an empty detection list: the association does not stall, its output is
\* the previous list unchanged, and clipper, extractor and feedback write
\* run as usual.
C15_SkipIsTransparent ==
  DetectorSkipped =>
    /\ detect_calls = 0
    /\ IsSettled(hand_rects_from_hand_detector) =>
         hand_rects_from_hand_detector = NoPacket(<<>>)
    /\ (IsSettled(hand_rects_from_hand_detector) /\ IsPending(hand_rects)) =>
         ENABLED HandAssociation
    /\ HasPkt(hand_rects) =>
         /\ assoc_inputs = <<prev_hand_rects_from_landmarks.v, <<>>>>
         /\ hand_rects.v = prev_hand_rects_from_landmarks.v
    /\ (HasPkt(hand_rects) /\ IsPending(clipped_hand_rects)) =>
         ENABLED ClipHandRects
    /\ HasPkt(clipped_hand_rects) =>
         /\ Len(clipped_hand_rects.v) = max_num_hands
         /\ \A i \in 1..max_num_hands :
              clipped_hand_rects.v[i] = prev_hand_rects_from_landmarks.v[i]
    /\ (HasPkt(clipped_hand_rects) /\ IsPending(hand_rects_for_next_frame)) =>
         ENABLED HandLandmarkerSubgraph
    /\ (HasPkt(hand_rects_for_next_frame) /\ ~loop_written) =>
         ENABLED BackEdge
    /\ phase = "idle" =>
         /\ output.ts = timestamp
         /\ loop_written
         /\ register = hand_rects_for_next_frame.v

\* Scenario B: two regions tracked with max_entities = 2, detector skipped,
\* cycle complete.
C15_Witness ==
  /\ max_num_hands = 2
  /\ Len(register_at_start) = 2
  /\ DetectorSkipped
  /\ hand_rects.v = register_at_start
  /\ phase = "idle"
  /\ output.ts = timestamp

\* C16: no two cycles overlap on the register: it is read once and written
\* once per cycle in strict alternation, and a new frame is accepted only
\* after the feedback write of the cycle before has landed.
C16_ReadWriteAlternate ==
  /\ \A i \in 1..Len(reg_log) :
       reg_log[i] = IF i % 2 = 1 THEN "r" ELSE "w"
  /\ phase = "run" =>
       Len(reg_log) = 2 * (timestamp - 1)
                      + (IF HasPkt(prev_hand_rects_from_landmarks) THEN 1 ELSE 0)
                      + (IF loop_written THEN 1 ELSE 0)
  /\ phase = "idle" => Len(reg_log) = 2 * timestamp
  /\ ENABLED AddFrame => Len(reg_log) = 2 * timestamp

\* Three cycles have read and written the register in turn.
C16_Witness ==
  /\ timestamp >= 3
  /\ phase = "idle"
  /\ reg_log = <<"r", "w", "r", "w", "r", "w">>

\* C17: every cycle that starts eventually completes: the feedback register
\* is written and the cycle's output (entities and pass-through image) is
\* emitted, whatever the detector and the extractor do.
C17_CycleCompletes ==
  (phase = "run")
    ~> (/\ phase = "idle"
        /\ loop_written
        /\ output.ts = timestamp
        /\ output.image = timestamp)

\* A cycle with the detector skipped and every extraction failed has
\* completed.
C17_Witness ==
  /\ timestamp >= 2
  /\ DetectorSkipped
  /\ Len(extract_outcome) >= 1
  /\ AllOmitted(extract_outcome)
  /\ phase = "idle"
  /\ loop_written
  /\ output.ts = timestamp

(* ---------------- one cycle as a function of its inputs ---------------- *)
\* What a cycle must produce, computed from the register at its start, the
\* detector's result and the extractor's outcome alone.
DetectorResult ==
  IF HasPkt(hand_rects_from_hand_detector) THEN hand_rects_from_hand_detector.v
  ELSE <<>>

ExpectedDetectCalls ==
  IF CollectionHasMinSize(register_at_start, max_num_hands) THEN 0 ELSE 1

ExpectedClipped ==
  ClipVectorSize(Associate(register_at_start, DetectorResult,
                           min_tracking_confidence),
                 max_num_hands)

ExpectedEntities ==
  [k \in 1..Len(Kept(extract_outcome)) |->
     ExpectedClipped[Kept(extract_outcome)[k]]]

ExpectedRegister ==
  [k \in 1..Len(Kept(extract_outcome)) |->
     extract_outcome[Kept(extract_outcome)[k]]]

\* C18: ProcessFrame is deterministic over runs.  Every completed cycle's
\* detector decision, entity list, pass-through image and register contents
\* are the values of fixed functions of the frame, the register at the start
\* of the cycle (empty before the first frame, the previous cycle's write
\* after it), the detector's result and the extractor's outcome; the order in
\* which the nodes of the cycle ran plays no part, so two runs given the same
\* frames and the same detector and extractor outputs agree cycle by cycle.
C18_CycleIsFunctionOfInputs ==
  (phase = "idle" /\ timestamp >= 1) =>
    /\ register_at_start = (IF timestamp = 1 THEN <<>> ELSE prev_cycle_write)
    /\ detect_calls = ExpectedDetectCalls
    /\ detect_calls = 0 => ~HasPkt(hand_rects_from_hand_detector)
    /\ Len(extract_outcome) = Len(ExpectedClipped)
    /\ output.entities = ExpectedEntities
    /\ output.next_rects = ExpectedRegister
    /\ output.image = timestamp
    /\ output.ts = timestamp
    /\ register = ExpectedRegister

\* A third cycle has completed after a cycle that ran the detector and one
\* that lost an entity, with both detector and extractor contributing.
C18_Witness ==
  /\ timestamp = 3
  /\ phase = "idle"
  /\ prev_cycle_counts[2] >= 1
  /\ detect_calls = 1
  /\ Len(DetectorResult) >= 1
  /\ Len(register_at_start) >= 1
  /\ Len(output.entities) >= 2
  /\ register = ExpectedRegister

\* C19: the pass-through image of a cycle is the frame supplied to that cycle:
\* the input frame stays as supplied while every stage runs, the gated copy
\* and the pass-through copy are that same frame, and the pass-through is
\* emitted whether or not the detector ran.
C19_PassThroughIsInputFrame ==
  /\ timestamp >= 1 => image_in = Pkt(timestamp)
  /\ HasPkt(image_for_hand_detector) => image_for_hand_detector.v = timestamp
  /\ detect_calls >= 1 => detect_frame = timestamp
  /\ image_out.st # "none"
  /\ HasPkt(image_out) => image_out = image_in
  /\ (phase = "idle" /\ timestamp >= 1) =>
       /\ output.image = timestamp
       /\ output.ts = timestamp
       /\ image_out = Pkt(timestamp)

\* The second frame came out as the pass-through image of a cycle whose
\* detector was skipped.
C19_Witness ==
  /\ timestamp = 2
  /\ phase = "idle"
  /\ DetectorSkipped
  /\ detect_calls = 0
  /\ Len(output.entities) >= 1
  /\ output.image = 2

\* C20: no staleness-based refresh.  Once the register was full at the start
\* of a cycle and the extractor has returned a region for every clipped
\* region since, the detector is not invoked: no frame reaches it, and each
\* later cycle starts with a full register again.
C20_NoForcedRefresh ==
  stable =>
    /\ detect_calls = 0
    /\ detect_frame = 0
    /\ ~HasPkt(image_for_hand_detector)
    /\ ~HasPkt(hand_rects_from_hand_detector)
    /\ CollectionHasMinSize(register_at_start, max_num_hands)
    /\ IsSettled(has_enough_hands) => has_enough_hands = Pkt(TRUE)

\* Two cycles in a row after the detecting one ran without the detector.
C20_Witness ==
  /\ timestamp = 3
  /\ phase = "idle"
  /\ stable
  /\ prev_cycle_counts = <<max_num_hands, 0>>
  /\ detect_calls = 0
  /\ Len(output.entities) = max_num_hands

\* C21: the detection-only outputs of a cycle come only from a detector
\* invocation of that same cycle.  The palm streams carry a packet only when
\* the detector ran on this cycle's frame and are then this invocation's
\* result; in a cycle where the detector was skipped the emitted palm rects
\* and palm detections are empty, whatever an earlier cycle detected.
C21_PalmOutputsFromThisCycle ==
  /\ HasPkt(palm_rects) =>
       /\ detect_calls = 1
       /\ detect_frame = timestamp
       /\ palm_rects = hand_rects_from_hand_detector
  /\ HasPkt(palm_detections) =>
       /\ detect_calls = 1
       /\ detect_frame = timestamp
       /\ palm_detections = hand_rects_from_hand_detector
  /\ (phase = "idle" /\ timestamp >= 1) =>
       /\ output.palm_rects = DetectorResult
       /\ output.palm_detections = DetectorResult
       /\ detect_calls = 0 =>
            /\ output.palm_rects = <<>>
            /\ output.palm_detections = <<>>

\* The second cycle skipped the detector and emitted no palm outputs although
\* the first cycle's detection had found hands.
C21_Witness ==
  /\ timestamp = 2
  /\ phase = "idle"
  /\ DetectorSkipped
  /\ detect_calls = 0
  /\ Len(register_at_start) >= 1
  /\ Len(output.entities) >= 1
  /\ output.palm_rects = <<>>
  /\ output.palm_detections = <<>>

\* C22: within one cycle the gate and the association consume the same single
\* read of the register: the loopback reads it once per cycle, the list whose
\* length the gate compares with max_num_hands and the association's previous
\* list are both that read, and the register changes only when the back edge
\* delivers.
C22_OneReadSharedAndSingleWriter ==
  /\ [](/\ HasPkt(prev_hand_rects_from_landmarks) =>
             /\ prev_hand_rects_from_landmarks.v = register_at_start
             /\ Cardinality({i \in 1..Len(reg_log) : reg_log[i] = "r"})
                  = timestamp
        /\ HasPkt(has_enough_hands) =>
             has_enough_hands.v =
               CollectionHasMinSize(prev_hand_rects_from_landmarks.v,
                                    max_num_hands)
        /\ IsSettled(hand_rects) =>
             /\ assoc_inputs[1] = prev_hand_rects_from_landmarks.v
             /\ assoc_inputs[1] = register_at_start
        /\ (phase = "run" /\ ~loop_written) => register = register_at_start)
  /\ [][register' # register =>
          /\ ~loop_written
          /\ loop_written'
          /\ HasPkt(hand_rects_for_next_frame)
          /\ register' = hand_rects_for_next_frame.v
          /\ reg_log' = Append(reg_log, "w")
          /\ UNCHANGED <<streams, output, detect_calls>>]_vars

\* The gate found too few hands in a non-empty read, the association used the
\* same read as its previous list next to a fresh detection, and the back edge
\* then changed the register.
C22_Witness ==
  /\ timestamp >= 2
  /\ Len(register_at_start) >= 1
  /\ has_enough_hands = Pkt(FALSE)
  /\ IsSettled(hand_rects)
  /\ assoc_inputs[1] = register_at_start
  /\ Len(assoc_inputs[2]) >= 1
  /\ loop_written
  /\ register # register_at_start

\* C23: after every cycle the register holds exactly the predicted regions of
\* that cycle's output: the HAND_RECT_NEXT_FRAME stream that is emitted is the
\* one the back edge delivered, the register is as long as the entity list,
\* and every region in it is one the extractor returned for a clipped region.
C23_RegisterIsPredictedOutput ==
  /\ loop_written =>
       /\ HasPkt(hand_rects_for_next_frame)
       /\ register = hand_rects_for_next_frame.v
       /\ Len(register) = Len(landmark_lists.v)
       /\ \A k \in 1..Len(register) :
            extract_outcome[Kept(extract_outcome)[k]] = register[k]
  /\ (phase = "idle" /\ timestamp >= 1) =>
       /\ register = output.next_rects
       /\ Len(register) = Len(output.entities)
       /\ Len(register) = Len(Kept(extract_outcome))
       /\ Len(extract_outcome) = Len(clipped_hand_rects.v)

\* A cycle has ended whose extractor dropped one region and moved another:
\* the register holds the one predicted region, not the clipped ones.
C23_Witness ==
  /\ phase = "idle"
  /\ timestamp >= 2
  /\ Len(clipped_hand_rects.v) = 2
  /\ Len(Kept(extract_outcome)) = 1
  /\ Len(register) = 1
  /\ register = output.next_rects
  /\ register[1] # clipped_hand_rects.v[1]
  /\ register[1] # clipped_hand_rects.v[2]
====
